---- MODULE Spec2Model ----
(***************************************************************************)
(* Bar-by-bar simulation of the two strategies of the repository,         *)
(* BollingerBandBreakout (Backtest/test1/bb_breakout.py) and               *)
(* MovingAverageCrossStrategy (Backtest/test_template.py), together with   *)
(* the order lifecycle, ledger and indicators they delegate to.            *)
(*                                                                         *)
(* Units.  Prices are whole currency units.  Cash, values, commissions and *)
(* profits are kept in thousandths of a currency unit, so that the 0.1%    *)
(* commission of CONFIG is exact: a fill of `size` at `price` has value    *)
(* price*size*1000 and commission price*size*commission.  Percentages      *)
(* (position_size_pct, stop_loss_pct) are kept in whole percent.           *)
(*                                                                         *)
(* The strategies' handlers (notify_order, notify_trade, next) are         *)
(* translated from the source.  The broker, the ledger and the indicator   *)
(* formulas are the framework the scripts call into; they are modelled     *)
(* from sections 4.2 and 4.4 of the specification.                         *)
(***************************************************************************)
EXTENDS Integers, Sequences, FiniteSets, TLC

VARIABLES
    strat,      \* which strategy class the run was configured with
    pc,         \* position in the per-bar loop: feed, broker, strategy, done
    len,        \* number of bars delivered so far (len(self.data))
    closes,     \* the most recent closes, newest last (at most Window(strat))
    cash,       \* broker cash, in thousandths
    position,   \* broker position size (self.position.size)
    trade,      \* the open Trade of the ledger, or NoTrade
    ntrades,    \* number of Trade records closed so far
    last_trade, \* the Trade record closed last, or NoTrade
    orders,     \* every order created so far, with its current status
    notifs,     \* notifications queued for the strategy, oldest first
    order,      \* self.order: index into orders, or None
    buy_price,  \* self.buy_price, or None
    buy_comm,   \* self.buy_comm, or None
    trade_log,  \* number of TRADE PROFIT lines notify_trade produced
    ev,         \* what the step just taken did (observation only)
    ahead,      \* the close of the bar the feed has loaded but not delivered
    dpc,        \* position of the caller of the DataCollector
    data,       \* the DataFrame the caller holds
    config,     \* the options the caller configured for the call
    result,     \* what the last call of the DataCollector returned
    metadata,   \* self.metadata of the DataCollector
    files,      \* the dataset file and its sidecar, as last saved
    optimization_params, \* the candidate values of the sweep, per parameter
    results,    \* what cerebro.run() has returned so far, one entry per run
    opt_results, \* the records print_optimization_results built and ranked
    signals     \* the values self.crossover took, one per bar (kept by SpecCross)

\* The state of the simulation of one run.
sim_vars == <<strat, pc, len, closes, cash, position, trade, ntrades, last_trade,
              orders, notifs, order, buy_price, buy_comm, trade_log, ev>>

\* The state outside the bar-by-bar loop of a run.
ext_vars == <<ahead, dpc, data, config, result, metadata, files,
              optimization_params, results, opt_results, signals>>

vars == <<sim_vars, ext_vars>>

(***************************************************************************)
(* Run inputs and model bounds.                                            *)
(***************************************************************************)

\* Closes and fill reference prices the data feed may deliver.
Prices == {97, 100, 106}

\* config['initial_cash'] values of the runs explored, in currency units.
InitialCashes == {10000, 1000, 100}

\* Strategy classes the run may be configured with.
Strategies == {"BB", "MA"}

\* Bars the feed delivers after the strategy's minimum period is reached.
TradingBars == 4

\* params: period of the Bollinger Bands (scaled down from the default).
bb_period == 4

\* params: bb_dev, as a fraction <<numerator, denominator>> (1.5).
bb_dev == <<3, 2>>

\* params: stop loss of BollingerBandBreakout, in percent.
stop_loss_pct == 3

\* params: share of the cash used per entry, in percent.
position_size_pct == 95

\* period=14 of the RSI that BollingerBandBreakout registers.
RsiPeriod == 14

\* period=20 of the volume SMA that BollingerBandBreakout registers.
VolumeSmaPeriod == 20

\* params of MovingAverageCrossStrategy (periods scaled down).
fast_period == 2

slow_period == 3

ma_stop_loss_pct == 2

ma_position_size_pct == 95

\* period of the RSI that MovingAverageCrossStrategy registers (the default).
MaRsiPeriod == 14

\* config['commission'], in thousandths of the traded value.
commission == 1

None == 0

NoTrade == [size |-> 0, price |-> 0, comm |-> 0, exit |-> 0, pnl |-> 0, pnlcomm |-> 0]

Max(S) == CHOOSE x \in S : \A y \in S : y <= x


(***************************************************************************)
(* Arithmetic helpers.                                                     *)
(***************************************************************************)

\* Python's int(n / d) for d > 0: truncation towards zero.
int(n, d) == IF n >= 0 THEN n \div d ELSE -((-n) \div d)

RECURSIVE Sum(_)
Sum(s) == IF s = <<>> THEN 0 ELSE Head(s) + Sum(Tail(s))

RECURSIVE SumSq(_)
SumSq(s) == IF s = <<>> THEN 0 ELSE Head(s) * Head(s) + SumSq(Tail(s))

\* The p closes ending `ago` bars before the newest one.
Recent(p, ago) == SubSeq(closes, Len(closes) - ago - p + 1, Len(closes) - ago)

\* Mutant: self.dataclose[1], the close of the bar after the current one.
dataclose_ahead == ahead

\* self.dataclose[0]
dataclose == closes[Len(closes)]

(***************************************************************************)
(* Indicators (section 4.2).  A value that is not ready compares False     *)
(* with everything, as a NaN does.                                         *)
(***************************************************************************)

\* Closes the model keeps: what the strategy's indicators look back on.
Window(s) == IF s = "BB" THEN bb_period ELSE slow_period + 1

\* SimpleMovingAverage(period=p) has a value once p bars were observed.
SmaReady(p, ago) == len - ago >= p

\* BollingerBands(period=bb_period): mid = SMA, top = mid + bb_dev * stddev,
\* stddev the population standard deviation of the last bb_period closes.
BBReady == SmaReady(bb_period, 0)

\* bb_period * (close - mid)
BBDeviation == bb_period * dataclose - Sum(Recent(bb_period, 0))

\* bb_period^2 * variance
BBVariance ==
    LET w == Recent(bb_period, 0)
    IN  bb_period * SumSq(w) - Sum(w) * Sum(w)

\* close > top_band[0]: close - mid > (num/den) * stddev, squared on both sides.
AboveTop ==
    /\ BBReady
    /\ BBDeviation > 0
    /\ bb_dev[2] * bb_dev[2] * BBDeviation * BBDeviation
         > bb_dev[1] * bb_dev[1] * BBVariance

\* close < mid_band[0]
BelowMid == BBReady /\ BBDeviation < 0

\* Sign of fast_ma - slow_ma, `ago` bars back (both averages ready).
MaDiff(ago) ==
    LET d == slow_period * Sum(Recent(fast_period, ago))
             - fast_period * Sum(Recent(slow_period, ago))
    IN  IF d > 0 THEN 1 ELSE IF d < 0 THEN -1 ELSE 0

\* CrossOver(fast_ma, slow_ma) has a value once both averages had one on the
\* previous bar as well.
CrossReady == SmaReady(fast_period, 1) /\ SmaReady(slow_period, 1)

\* Mutant: the signal is the side the fast average is on, not the change of side.
crossover_level == IF ~CrossReady THEN 0 ELSE MaDiff(0)

\* +1 where fast goes from <= slow to > slow, -1 on the reverse, else 0.
crossover ==
    IF ~CrossReady THEN 0
    ELSE IF MaDiff(1) <= 0 /\ MaDiff(0) > 0 THEN 1
    ELSE IF MaDiff(1) >= 0 /\ MaDiff(0) < 0 THEN -1
    ELSE 0

\* Mutant: off by one, and the other indicators forgotten: next() is called
\* one bar before the bands have a value.
bb_minperiod_early == bb_period - 1

\* Bars before the framework calls BollingerBandBreakout.next(): the longest
\* look-back of the indicators registered in __init__ (the RSI needs one
\* bar more than its period).
bb_minperiod == Max({bb_period, RsiPeriod + 1, VolumeSmaPeriod})

\* The same for MovingAverageCrossStrategy (the CrossOver needs one bar more
\* than the averages it compares).
ma_minperiod ==
    Max({fast_period, slow_period, Max({fast_period, slow_period}) + 1,
         MaRsiPeriod + 1})

minperiod(s) == IF s = "BB" THEN bb_minperiod ELSE ma_minperiod

\* Length of the data feed of the run.
DataLen(s) == minperiod(s) + TradingBars - 1

(***************************************************************************)
(* DataFrames of the DataCollector (Backtest/datasets/data_collection.py). *)
(* A frame is the list of its columns and the sequence of its rows; a cell *)
(* that is missing holds NaN, which compares False with everything.        *)
(***************************************************************************)

\* The state of the caller of the DataCollector.
data_vars == <<dpc, data, config, result, metadata, files>>

NaN == -1

NoFrame == [columns |-> {}, rows |-> <<>>]

NoConfig == [gap_threshold_days |-> 0, method |-> ""]

\* self.metadata before any fetch: no parameter set, no row count.
NoMetadata ==
    [source |-> "", fetched |-> FALSE, symbols |-> <<>>, date_range |-> 0,
     interval |-> "", rows_collected |-> 0]

\* Nothing was saved.
NoFiles == [saved |-> FALSE, rows |-> <<>>, sidecar |-> FALSE, metadata |-> NoMetadata]

\* No DataCollector is in use.
DataIdle ==
    /\ dpc = "idle"
    /\ data = NoFrame
    /\ config = NoConfig
    /\ result = NoFrame
    /\ metadata = NoMetadata
    /\ files = NoFiles

\* The state of the parameter sweep.
sweep_vars == <<optimization_params, results, opt_results>>

\* No sweep was configured.
NoSweep == [bb_period |-> <<>>, bb_dev |-> <<>>, stop_loss_pct |-> <<>>]

\* A single run: the optimizer is not used.
SweepIdle ==
    /\ optimization_params = NoSweep
    /\ results = <<>>
    /\ opt_results = <<>>
    /\ signals = <<>>

\* data[col].isnull()
isnull(v) == v = NaN

\* a < b on two cells
lt(a, b) == ~isnull(a) /\ ~isnull(b) /\ a < b

\* a <= b on two cells
le(a, b) == ~isnull(a) /\ ~isnull(b) /\ a <= b

\* (mask).sum(): the number of rows of df that satisfy P
CountRows(df, P(_)) == Cardinality({i \in 1..Len(df.rows) : P(df.rows[i])})

(***************************************************************************)
(* Observation record of the step just taken.                              *)
(***************************************************************************)

Ev(op) == [op |-> op, intent |-> "none", size |-> 0, why |-> "",
           ref |-> 0, price |-> 0, before |-> 0, held |-> 0, status |-> ""]

(***************************************************************************)
(* Order lifecycle and ledger (section 4.4).                               *)
(***************************************************************************)

\* order.Submitted, order.Accepted and order.Partial: the order is not (fully)
\* resolved yet.
PendingStatus == {"Submitted", "Accepted", "Partial"}

\* order.Completed, order.Canceled, order.Margin, order.Rejected.
TerminalStatus == {"Completed", "Canceled", "Margin", "Rejected"}

\* Mutant: the broker takes up resolved orders again.
PendingAny == 1..Len(orders)

\* Orders the broker still has to resolve.
Pending == {i \in 1..Len(orders) : orders[i].status \in PendingStatus}

\* fill_price * size, in thousandths.
Value(price, size) == price * size * 1000

\* cost = fill_price * size * commission_rate, in thousandths.
Commission(price, size) == price * size * commission

\* Mutant: the broker fills a buy whatever the cash.
CanAffordAlways(price, size) == TRUE

\* A buy is filled only if its value plus commission is covered by the cash.
CanAfford(price, size) == Value(price, size) + Commission(price, size) <= cash

\* A sell is filled only if the held size covers it.
CanDeliver(size) == size <= position

\* The notification of an order's status handed to notify_order.
OrderNote(i, status, price, comm) ==
    [kind |-> "order", ref |-> i, status |-> status, isbuy |-> orders[i].isbuy,
     price |-> price, comm |-> comm, isclosed |-> FALSE, pnl |-> 0, pnlcomm |-> 0]

\* The notification of a trade handed to notify_trade.
TradeNote(isclosed, pnl, pnlcomm) ==
    [kind |-> "trade", ref |-> 0, status |-> "", isbuy |-> FALSE,
     price |-> 0, comm |-> 0, isclosed |-> isclosed, pnl |-> pnl, pnlcomm |-> pnlcomm]

\* Submitted and Accepted are notified before the resolution of a new order.
Preamble(i) ==
    IF orders[i].status = "Submitted"
    THEN <<OrderNote(i, "Submitted", 0, 0), OrderNote(i, "Accepted", 0, 0)>>
    ELSE <<>>

\* The Trade record closed by selling the whole position at price p.
ClosedTrade(p, comm) ==
    LET pnl == (p - trade.price) * trade.size * 1000
    IN  [size |-> trade.size, price |-> trade.price, comm |-> trade.comm + comm,
         exit |-> p, pnl |-> pnl, pnlcomm |-> pnl - (trade.comm + comm)]

\* Weighted-average cost basis of the position after buying size at p.
BoughtTrade(p, size, comm) ==
    [size |-> trade.size + size,
     price |-> (trade.price * trade.size + p * size) \div (trade.size + size),
     comm |-> trade.comm + comm, exit |-> 0, pnl |-> 0, pnlcomm |-> 0]

\* Pending -> Filled: the buy order i is executed at price p.
FillBuy(i, p) ==
    LET o == orders[i]
        comm == Commission(p, o.size)
    IN  /\ cash' = cash - Value(p, o.size) - comm
        /\ position' = position + o.size
        /\ trade' = BoughtTrade(p, o.size, comm)
        /\ orders' = [orders EXCEPT ![i].status = "Completed", ![i].price = p]
        /\ notifs' = notifs \o Preamble(i) \o <<OrderNote(i, "Completed", p, comm)>>
                       \o (IF position = 0 THEN <<TradeNote(FALSE, 0, 0)>> ELSE <<>>)
        /\ UNCHANGED <<ntrades, last_trade>>

\* Pending -> Filled: the sell order i is executed at price p.
FillSell(i, p) ==
    LET o == orders[i]
        comm == Commission(p, o.size)
        closed == ClosedTrade(p, comm)
    IN  /\ cash' = cash + Value(p, o.size) - comm
        /\ position' = position - o.size
        /\ orders' = [orders EXCEPT ![i].status = "Completed", ![i].price = p]
        /\ IF position - o.size = 0
           THEN /\ trade' = NoTrade
                /\ ntrades' = ntrades + 1
                /\ last_trade' = closed
                /\ notifs' = notifs \o Preamble(i)
                               \o <<OrderNote(i, "Completed", p, comm),
                                    TradeNote(TRUE, closed.pnl, closed.pnlcomm)>>
           ELSE /\ trade' = [trade EXCEPT !.size = position - o.size,
                                          !.comm = trade.comm + comm]
                /\ notifs' = notifs \o Preamble(i)
                               \o <<OrderNote(i, "Completed", p, comm)>>
                /\ UNCHANGED <<ntrades, last_trade>>

\* Pending -> Rejected: nothing of the ledger changes.
Reject(i, status) ==
    /\ orders' = [orders EXCEPT ![i].status = status]
    /\ notifs' = notifs \o Preamble(i) \o <<OrderNote(i, status, 0, 0)>>
    /\ UNCHANGED <<cash, position, trade, ntrades, last_trade>>

\* The status the order i resolves to when executed at price p.
Outcome(i, p) ==
    IF orders[i].isbuy
    THEN IF CanAfford(p, orders[i].size) THEN "Completed" ELSE "Margin"
    ELSE IF CanDeliver(orders[i].size) THEN "Completed" ELSE "Rejected"

\* The broker resolves the pending order i against the new bar, whose
\* reference price is p.
BrokerExecute(i, p) ==
    /\ pc = "broker"
    /\ i \in Pending
    /\ IF Outcome(i, p) = "Completed"
       THEN IF orders[i].isbuy THEN FillBuy(i, p) ELSE FillSell(i, p)
       ELSE Reject(i, Outcome(i, p))
    /\ ev' = [Ev("execute") EXCEPT !.ref = i, !.price = p, !.before = cash,
                                   !.held = position,
                                   !.size = orders[i].size,
                                   !.intent = IF orders[i].isbuy THEN "buy" ELSE "sell",
                                   !.status = Outcome(i, p)]
    /\ pc' = "strategy"
    /\ UNCHANGED <<strat, len, closes, order, buy_price, buy_comm, trade_log>>
    /\ UNCHANGED ext_vars

\* Pending -> Canceled: an external cancellation request.
BrokerCancel(i) ==
    /\ pc = "broker"
    /\ i \in Pending
    /\ Reject(i, "Canceled")
    /\ ev' = [Ev("cancel") EXCEPT !.ref = i, !.before = cash, !.held = position,
                                  !.status = "Canceled"]
    /\ pc' = "strategy"
    /\ UNCHANGED <<strat, len, closes, order, buy_price, buy_comm, trade_log>>
    /\ UNCHANGED ext_vars

\* The broker accepts the submitted order i and does not resolve it on this bar.
BrokerAccept(i) ==
    /\ pc = "broker"
    /\ i \in Pending
    /\ orders[i].status = "Submitted"
    /\ orders' = [orders EXCEPT ![i].status = "Accepted"]
    /\ notifs' = notifs \o Preamble(i)
    /\ ev' = [Ev("accept") EXCEPT !.ref = i]
    /\ pc' = "strategy"
    /\ UNCHANGED <<strat, len, closes, cash, position, trade, ntrades, last_trade,
                   order, buy_price, buy_comm, trade_log>>
    /\ UNCHANGED ext_vars

\* The broker has nothing to do on this bar.
BrokerIdle ==
    /\ pc = "broker"
    /\ \A i \in Pending : orders[i].status = "Accepted"
    /\ ev' = Ev("idle")
    /\ pc' = "strategy"
    /\ UNCHANGED <<strat, len, closes, cash, position, trade, ntrades, last_trade,
                   orders, notifs, order, buy_price, buy_comm, trade_log>>
    /\ UNCHANGED ext_vars

(***************************************************************************)
(* Strategy handlers, shared by both classes: notify_order, notify_trade.  *)
(***************************************************************************)

\* Mutant: self.order is reset in the Completed branch only.
order_after_completed_only(n) ==
    IF n.status = "Completed" THEN None ELSE order

\* self.order after notify_order(n): untouched by Submitted and Accepted,
\* reset by every other status.
order_after(n) ==
    IF n.status \in {"Submitted", "Accepted"} THEN order ELSE None

\* Mutant: the entry price is recorded for the first completed buy only.
buy_price_after_first(n) ==
    IF n.status = "Completed" /\ n.isbuy /\ buy_price = None THEN n.price
    ELSE buy_price

\* self.buy_price after notify_order(n): set by a completed buy only.
buy_price_after(n) ==
    IF n.status = "Completed" /\ n.isbuy THEN n.price ELSE buy_price

\* self.buy_comm after notify_order(n).
buy_comm_after(n) ==
    IF n.status = "Completed" /\ n.isbuy THEN n.comm ELSE buy_comm

\* The branch of notify_order that n takes.
notify_branch(n) ==
    IF n.status \in {"Submitted", "Accepted"} THEN "return"
    ELSE IF n.status = "Completed" THEN (IF n.isbuy THEN "buy executed" ELSE "sell executed")
    ELSE IF n.status \in {"Canceled", "Margin", "Rejected"} THEN "not executed"
    ELSE "other"

NotifyOrder ==
    /\ pc = "strategy"
    /\ notifs # <<>>
    /\ Head(notifs).kind = "order"
    /\ order' = order_after(Head(notifs))
    /\ buy_price' = buy_price_after(Head(notifs))
    /\ buy_comm' = buy_comm_after(Head(notifs))
    /\ notifs' = Tail(notifs)
    /\ ev' = [Ev("notify_order") EXCEPT !.ref = Head(notifs).ref,
                                        !.status = Head(notifs).status,
                                        !.why = notify_branch(Head(notifs)),
                                        !.before = cash, !.held = position]
    /\ UNCHANGED <<strat, pc, len, closes, cash, position, trade, ntrades,
                   last_trade, orders, trade_log>>
    /\ UNCHANGED ext_vars

\* notify_trade logs the profit of a closed trade and ignores any other.
NotifyTrade ==
    /\ pc = "strategy"
    /\ notifs # <<>>
    /\ Head(notifs).kind = "trade"
    /\ trade_log' = IF ~Head(notifs).isclosed THEN trade_log ELSE trade_log + 1
    /\ notifs' = Tail(notifs)
    /\ ev' = [Ev("notify_trade") EXCEPT
                 !.why = IF Head(notifs).isclosed THEN "closed" ELSE "return"]
    /\ UNCHANGED <<strat, pc, len, closes, cash, position, trade, ntrades,
                   last_trade, orders, order, buy_price, buy_comm>>
    /\ UNCHANGED ext_vars

(***************************************************************************)
(* next() of the two strategies.                                           *)
(***************************************************************************)

Intent(intent, size, why) == [intent |-> intent, size |-> size, why |-> why]

\* Mutant: next() does not look at self.order.
order_pending_ignored == FALSE

\* if self.order: return
order_pending == order # None

\* if not self.position
flat == position = 0

\* Mutant: the size is computed from the whole cash.
entry_size_all_cash(pct) == int(cash, 1000 * dataclose)

\* size = int((cash * position_size_pct) / self.dataclose[0])
entry_size(pct) == int(cash * pct, 100 * 1000 * dataclose)

\* Mutant: the exit sells half of the held size.
exit_size_half == position \div 2

\* self.sell(size=self.position.size)
exit_size == position

\* Mutant: the stop compares with +stop_loss_pct.
stop_loss_hit_unsigned(pct) == (dataclose - buy_price) * 100 <= pct * buy_price

\* loss_pct = (close - buy_price) / buy_price; loss_pct <= -stop_loss_pct
stop_loss_hit(pct) == (dataclose - buy_price) * 100 <= -(pct * buy_price)

\* Mutant: the close is compared with the middle band.
bb_entry_above_mid == BBReady /\ BBDeviation > 0

\* if self.dataclose[0] > self.top_band[0]
bb_entry_signal == AboveTop

\* if self.dataclose[0] < self.mid_band[0]
bb_exit_signal == BelowMid

\* Mutant: the entry tests that fast is above slow, not that it crossed.
ma_entry_fast_above == CrossReady /\ MaDiff(0) > 0

\* if self.crossover > 0
ma_entry_signal == crossover > 0

\* if self.crossover < 0
ma_exit_signal == crossover < 0

\* The decision of next(), given the entry and exit signals of the class.
next_intent(entry, exit, size_pct, stop_pct) ==
    IF order_pending THEN Intent("none", 0, "pending")
    ELSE IF flat
    THEN IF entry
         THEN IF entry_size(size_pct) > 0
              THEN Intent("buy", entry_size(size_pct), "entry")
              ELSE Intent("none", 0, "no size")
         ELSE Intent("none", 0, "no entry")
    ELSE IF exit THEN Intent("sell", exit_size, "exit")
    ELSE IF buy_price # None
    THEN IF stop_loss_hit(stop_pct)
         THEN Intent("sell", exit_size, "stop")
         ELSE Intent("none", 0, "hold")
    ELSE Intent("none", 0, "no buy price")

\* BollingerBandBreakout.next
bb_next == next_intent(bb_entry_signal, bb_exit_signal, position_size_pct, stop_loss_pct)

\* MovingAverageCrossStrategy.next
ma_next == next_intent(ma_entry_signal, ma_exit_signal, ma_position_size_pct,
                       ma_stop_loss_pct)

\* self.buy(size=...) / self.sell(size=...): the order is created Submitted.
NewOrder(it) == [isbuy |-> it.intent = "buy", size |-> it.size,
                 status |-> "Submitted", created |-> len, price |-> 0]

\* The framework calls next() once every registered indicator has a value.
Next ==
    /\ pc = "strategy"
    /\ notifs = <<>>
    /\ len >= minperiod(strat)
    /\ LET it == IF strat = "BB" THEN bb_next ELSE ma_next
       IN  /\ IF it.intent = "none"
              THEN UNCHANGED <<orders, order>>
              ELSE /\ orders' = Append(orders, NewOrder(it))
                   /\ order' = Len(orders) + 1
           /\ ev' = [Ev("next") EXCEPT !.intent = it.intent, !.size = it.size,
                                       !.why = it.why, !.before = cash,
                                       !.held = position]
    /\ pc' = "feed"
    /\ UNCHANGED <<strat, len, closes, cash, position, trade, ntrades, last_trade,
                   notifs, buy_price, buy_comm, trade_log>>
    /\ UNCHANGED ext_vars

\* Before that it calls prenext(), which the strategies do not override.
Prenext ==
    /\ pc = "strategy"
    /\ notifs = <<>>
    /\ len < minperiod(strat)
    /\ ev' = Ev("prenext")
    /\ pc' = "feed"
    /\ UNCHANGED <<strat, len, closes, cash, position, trade, ntrades, last_trade,
                   orders, notifs, order, buy_price, buy_comm, trade_log>>
    /\ UNCHANGED ext_vars

(***************************************************************************)
(* The data feed and the run.                                              *)
(***************************************************************************)

\* The window of closes after the close c of a new bar.
Pushed(c) ==
    LET w == Append(closes, c)
    IN  IF Len(w) > Window(strat) THEN Tail(w) ELSE w

\* The feed delivers the next bar, whose close is c.
Advance(c) ==
    /\ pc = "feed"
    /\ len < DataLen(strat)
    /\ len' = len + 1
    /\ closes' = Pushed(c)
    /\ ev' = Ev("advance")
    /\ pc' = "broker"
    /\ UNCHANGED <<strat, cash, position, trade, ntrades, last_trade, orders,
                   notifs, order, buy_price, buy_comm, trade_log>>

\* The feed is exhausted: cerebro.run() returns.
Stop ==
    /\ pc = "feed"
    /\ len = DataLen(strat)
    /\ ev' = Ev("stop")
    /\ pc' = "done"
    /\ UNCHANGED <<strat, len, closes, cash, position, trade, ntrades, last_trade,
                   orders, notifs, order, buy_price, buy_comm, trade_log>>
    /\ UNCHANGED ext_vars

Init ==
    /\ strat \in Strategies
    /\ pc = "feed"
    /\ len = 0
    /\ closes = <<>>
    /\ cash \in {c * 1000 : c \in InitialCashes}
    /\ position = 0
    /\ trade = NoTrade
    /\ ntrades = 0
    /\ last_trade = NoTrade
    /\ orders = <<>>
    /\ notifs = <<>>
    /\ order = None
    /\ buy_price = None
    /\ buy_comm = None
    /\ trade_log = 0
    /\ ev = Ev("init")
    /\ ahead = None
    /\ DataIdle
    /\ SweepIdle

Step ==
    \/ \E c \in Prices : Advance(c) /\ UNCHANGED ext_vars
    \/ \E i \in 1..Len(orders), p \in Prices : BrokerExecute(i, p)
    \/ \E i \in 1..Len(orders) : BrokerCancel(i)
    \/ \E i \in 1..Len(orders) : BrokerAccept(i)
    \/ BrokerIdle
    \/ NotifyOrder
    \/ NotifyTrade
    \/ Next
    \/ Prenext
    \/ Stop

Spec == Init /\ [][Step]_vars

(***************************************************************************)
(* The run over a preloaded feed.  The data file is read whole before the  *)
(* run starts (load_data), so the bar after the current one is already in  *)
(* memory while the current one is evaluated: `ahead` is its close.        *)
(***************************************************************************)

\* Closes and fill reference prices of the preloaded feed.
FeedPrices == {97, 106}

\* The feed delivers the loaded bar and loads the one after it, whose close
\* is c.
AdvanceLoaded(c) ==
    /\ Advance(ahead)
    /\ ahead' = c
    /\ UNCHANGED <<data_vars, sweep_vars, signals>>

\* Any continuation of the series beyond the bars delivered so far is a
\* series that agrees with this one on bars 0..len: the bar not yet
\* delivered is replaced by another one, whose close is c.
OtherContinuation(c) ==
    /\ pc # "done"
    /\ c # ahead
    /\ ahead' = c
    /\ UNCHANGED sim_vars
    /\ UNCHANGED <<data_vars, sweep_vars, signals>>

FeedInit ==
    /\ strat \in Strategies
    /\ pc = "feed"
    /\ len = 0
    /\ closes = <<>>
    /\ cash \in {c * 1000 : c \in InitialCashes}
    /\ position = 0
    /\ trade = NoTrade
    /\ ntrades = 0
    /\ last_trade = NoTrade
    /\ orders = <<>>
    /\ notifs = <<>>
    /\ order = None
    /\ buy_price = None
    /\ buy_comm = None
    /\ trade_log = 0
    /\ ev = Ev("init")
    /\ ahead \in FeedPrices
    /\ DataIdle
    /\ SweepIdle

FeedStep ==
    \/ \E c \in FeedPrices : AdvanceLoaded(c)
    \/ \E c \in FeedPrices : OtherContinuation(c)
    \/ \E i \in 1..Len(orders), p \in FeedPrices : BrokerExecute(i, p)
    \/ \E i \in 1..Len(orders) : BrokerCancel(i)
    \/ \E i \in 1..Len(orders) : BrokerAccept(i)
    \/ BrokerIdle
    \/ NotifyOrder
    \/ NotifyTrade
    \/ Next
    \/ Prenext
    \/ Stop

SpecFeed == FeedInit /\ [][FeedStep]_vars

(***************************************************************************)
(* Vocabulary of the properties.  These definitions restate the rules of   *)
(* sections 4.3 and 4.4 on the ledger and the order book; they do not use  *)
(* the strategy's own fields (self.order, self.buy_price).                 *)
(***************************************************************************)

\* The order that the step just taken emitted, if it was a next() that did.
Emitted == ev.op = "next" /\ ev.intent # "none"

\* The orders that were pending when the step just taken began, for a step
\* of the strategy (which resolves no order).
PendingBefore == IF Emitted THEN Pending \ {Len(orders)} ELSE Pending

RejectedStatus == {"Margin", "Rejected", "Canceled"}

CompletedBuys ==
    {i \in 1..Len(orders) : orders[i].isbuy /\ orders[i].status = "Completed"}

FilledSells ==
    {i \in 1..Len(orders) : ~orders[i].isbuy /\ orders[i].status = "Completed"}

\* The buy fill that opened the current position: the latest completed buy.
EntryFill == orders[Max(CompletedBuys)]

SizePct == IF strat = "BB" THEN position_size_pct ELSE ma_position_size_pct

StopPct == IF strat = "BB" THEN stop_loss_pct ELSE ma_stop_loss_pct

\* floor(position_size_pct * available_cash / close)
SizingRule == (cash * SizePct) \div (100 * 1000 * dataclose)

\* (close - entry_price) / entry_price <= -stop_loss_pct
StopLossRule ==
    /\ CompletedBuys # {}
    /\ (dataclose - EntryFill.price) * 100 <= -(StopPct * EntryFill.price)

LifecycleStep ==
    /\ Len(orders') >= Len(orders)
    /\ \A i \in 1..Len(orders) :
          /\ orders[i].status \in TerminalStatus => orders'[i] = orders[i]
          /\ orders'[i].status # orders[i].status =>
                /\ orders[i].status \in PendingStatus
                /\ orders'[i].status \in TerminalStatus \cup {"Accepted"}
    /\ \A i \in (Len(orders) + 1)..Len(orders') : orders'[i].status = "Submitted"

C2_TerminalStatesAbsorb == [][LifecycleStep]_vars

\* Two orders were resolved, to different terminal states, and the run went
\* on to its end with both unchanged.
C2_Witness ==
    /\ pc = "done"
    /\ \E i, j \in 1..Len(orders) :
          /\ i < j
          /\ orders[i].status \in TerminalStatus
          /\ orders[j].status \in TerminalStatus
          /\ orders[i].status # orders[j].status

\* C2 as stated: every emitted order ends in a terminal state, so none is
\* Pending once the run is over.
C2_EveryOrderEnds == pc = "done" => Pending = {}

(***************************************************************************)
(* C3.  A buy whose fill_price * size + commission exceeds the cash at     *)
(* resolution time is rejected, never filled, whatever the size the sizing *)
(* rule produced and whatever the fill reference price; the cash is never  *)
(* negative.                                                               *)
(***************************************************************************)
C3_UnaffordableBuyRejected ==
    /\ cash >= 0
    /\ ( /\ ev.op = "execute"
         /\ ev.intent = "buy"
         /\ ev.price * ev.size * 1000 + ev.price * ev.size * commission > ev.before )
       => /\ ev.status \in {"Margin", "Rejected"}
          /\ orders[ev.ref].status = ev.status
          /\ cash = ev.before
          /\ position = ev.held

\* A buy sized from the close of its signal bar was resolved at a higher
\* reference price that the cash did not cover, and was rejected.
C3_Witness ==
    /\ ev.op = "execute"
    /\ ev.intent = "buy"
    /\ ev.size > 0
    /\ ev.price * ev.size * 1000 + ev.price * ev.size * commission > ev.before
    /\ ev.status = "Margin"

(***************************************************************************)
(* C4.  A rejected or canceled order does not abort the run: its outcome   *)
(* is recorded on the order, cash and position are what they were, the     *)
(* bar's processing goes on, notify_order frees self.order, and next()     *)
(* emits an intent again on any bar where nothing is pending and an entry  *)
(* or exit condition holds.                                                *)
(***************************************************************************)
EntryRule ==
    /\ position = 0
    /\ IF strat = "BB" THEN AboveTop ELSE crossover = 1
    /\ SizingRule > 0

ExitRule ==
    /\ position # 0
    /\ \/ IF strat = "BB" THEN BelowMid ELSE crossover = -1
       \/ StopLossRule

C4_RejectionDoesNotAbort ==
    /\ (ev.op \in {"execute", "cancel"} /\ ev.status \in RejectedStatus)
         => /\ orders[ev.ref].status = ev.status
            /\ cash = ev.before
            /\ position = ev.held
            /\ pc = "strategy"
    /\ (ev.op = "notify_order" /\ ev.status \in RejectedStatus)
         => /\ order = None
            /\ cash = ev.before
            /\ position = ev.held
            /\ pc = "strategy"
    /\ (ev.op = "next" /\ PendingBefore = {} /\ (EntryRule \/ ExitRule))
         => Emitted
    /\ pc = "done" => len = DataLen(strat)

\* After an order was rejected or canceled, next() emitted a new order on a
\* later bar.
C4_Witness ==
    /\ Emitted
    /\ \E i \in 1..Len(orders) :
          /\ orders[i].status \in RejectedStatus
          /\ orders[i].created < len

(***************************************************************************)
(* C5.  BollingerBandBreakout emits a buy on a bar only if, on that bar,   *)
(* the close is above the upper band and no position is open: no entry is  *)
(* decided on a bar whose close is at or below its upper band.             *)
(***************************************************************************)
C5_BuyOnlyAboveUpperBand ==
    (ev.op = "next" /\ strat = "BB" /\ ev.intent = "buy")
       => /\ AboveTop
          /\ position = 0
          /\ ev.held = 0

\* The first buy of the run was emitted on a bar that closed above its upper
\* band, after a bar that had risen as well and on which nothing was bought.
C5_Witness ==
    /\ ev.op = "next"
    /\ strat = "BB"
    /\ ev.intent = "buy"
    /\ AboveTop
    /\ closes[Len(closes) - 1] > closes[Len(closes) - 2]
    /\ Len(orders) = 1

(***************************************************************************)
(* C6.  While BollingerBandBreakout holds a position and no order is       *)
(* pending, next() emits a sell of the whole held size if and only if the  *)
(* close is below the middle band or                                       *)
(* (close - entry_price) / entry_price <= -stop_loss_pct, entry_price      *)
(* being the fill price of the buy that opened the position.               *)
(***************************************************************************)
C6_BollingerExit ==
    (ev.op = "next" /\ strat = "BB" /\ position # 0 /\ PendingBefore = {})
       => /\ (ev.intent = "sell") <=> (BelowMid \/ StopLossRule)
          /\ ev.intent = "sell" => /\ ev.size = position
                                   /\ orders[Len(orders)].size = position
                                   /\ ~orders[Len(orders)].isbuy
          /\ ev.intent # "buy"

\* The stop loss alone sold the position: the close was not below the middle
\* band.
C6_Witness ==
    /\ ev.op = "next"
    /\ strat = "BB"
    /\ position # 0
    /\ ev.intent = "sell"
    /\ ev.size = position
    /\ ~BelowMid
    /\ StopLossRule

(***************************************************************************)
(* C7.  MovingAverageCrossStrategy, when no order is pending, emits a buy  *)
(* if and only if the crossover is +1, the position is flat and the        *)
(* computed size is positive, and emits a sell of the whole held size if   *)
(* and only if it holds a position and the crossover is -1 or the stop     *)
(* loss condition holds.                                                   *)
(***************************************************************************)
C7_MovingAverageCross ==
    (ev.op = "next" /\ strat = "MA" /\ PendingBefore = {})
       => /\ (ev.intent = "buy") <=>
                (crossover = 1 /\ position = 0 /\ SizingRule > 0)
          /\ (ev.intent = "sell") <=>
                (position # 0 /\ (crossover = -1 \/ StopLossRule))
          /\ ev.intent = "sell" => /\ ev.size = position
                                   /\ orders[Len(orders)].size = position
                                   /\ ~orders[Len(orders)].isbuy
          /\ ev.intent = "buy" => orders[Len(orders)].isbuy

\* The crossover of -1 sold a position that the stop loss would have kept.
C7_Witness ==
    /\ ev.op = "next"
    /\ strat = "MA"
    /\ position # 0
    /\ ev.intent = "sell"
    /\ ev.size = position
    /\ crossover = -1
    /\ ~StopLossRule

(***************************************************************************)
(* C8.  The size of every entry order is                                   *)
(* floor(position_size_pct * available_cash / close), from the cash and    *)
(* the close of the signal bar; when that is not positive no order is      *)
(* emitted and none becomes pending.                                       *)
(***************************************************************************)
C8_PositionSizing ==
    /\ (ev.op = "next" /\ ev.intent = "buy")
         => /\ ev.size = SizingRule
            /\ orders[Len(orders)].size = SizingRule
            /\ orders[Len(orders)].created = len
            /\ SizingRule > 0
    /\ (ev.op = "next" /\ position = 0 /\ PendingBefore = {} /\ SizingRule <= 0)
         => /\ ~Emitted
            /\ Pending = {}
            /\ order = None

\* The entry signal held on a bar where the cash bought less than one unit:
\* nothing was emitted.
C8_Witness ==
    /\ ev.op = "next"
    /\ position = 0
    /\ PendingBefore = {}
    /\ IF strat = "BB" THEN AboveTop ELSE crossover = 1
    /\ SizingRule <= 0
    /\ ~Emitted

IndicatorsReady ==
    IF strat = "BB"
    THEN len >= bb_period /\ BBReady
    ELSE len >= slow_period /\ len >= fast_period /\ CrossReady

C10_NoIntentBeforeReady ==
    /\ ev.op = "next" => IndicatorsReady
    /\ Emitted => IndicatorsReady
    /\ ~IndicatorsReady => orders = <<>> /\ order = None

\* A bar passed on which an indicator was not ready, and the strategy was
\* given no chance to act on it.
C10_Witness ==
    /\ ev.op = "prenext"
    /\ ~IndicatorsReady
    /\ len >= 1
    /\ orders = <<>>

(***************************************************************************)
(* C11.  No lookahead: two bar series that agree on bars 0..t give the     *)
(* same evaluation of bar t (the intent of next(), the resolution of the   *)
(* pending orders and the ledger after it), so the decision at bar t       *)
(* depends only on bars with index <= t; and a bar is delivered only once  *)
(* the broker, the notifications and next() of the bar before are done.    *)
(***************************************************************************)

\* What next() decides on the current bar.
Decision ==
    IF len < minperiod(strat) THEN Intent("none", 0, "prenext")
    ELSE IF strat = "BB" THEN bb_next ELSE ma_next

\* How the broker resolves each pending order on the current bar, and the
\* cash that is left, for each reference price of the bar.
Resolution ==
    [i \in Pending |->
       [p \in FeedPrices |->
          <<Outcome(i, p),
            IF Outcome(i, p) # "Completed" THEN cash
            ELSE IF orders[i].isbuy
            THEN cash - Value(p, orders[i].size) - Commission(p, orders[i].size)
            ELSE cash + Value(p, orders[i].size) - Commission(p, orders[i].size)>>]]

\* The evaluation of the current bar.
Evaluation == <<Decision, Resolution>>

\* The step is next() acting as Decision says.
DecidedStep ==
    /\ ev'.intent = Decision.intent
    /\ ev'.size = Decision.size
    /\ ev'.why = Decision.why
    /\ IF Decision.intent = "none"
       THEN orders' = orders /\ order' = order
       ELSE /\ orders' = Append(orders, NewOrder(Decision))
            /\ order' = Len(orders) + 1
    /\ cash' = cash
    /\ position' = position

NoLookaheadStep ==
    /\ (sim_vars' = sim_vars /\ len >= 1) => Evaluation' = Evaluation
    /\ (pc = "strategy" /\ pc' = "feed" /\ len >= minperiod(strat)) => DecidedStep
    /\ len' # len =>
          /\ len' = len + 1
          /\ pc = "feed"
          /\ notifs = <<>>
          /\ ev.op \in {"init", "next", "prenext"}
          /\ closes' = Pushed(ahead)
          /\ UNCHANGED <<cash, position, orders, order, buy_price>>

C11_NoLookahead == [][NoLookaheadStep]_vars

\* next() emitted a buy on a bar that closed above its upper band (or on a
\* crossover) while the bar loaded after it closes lower.
C11_Witness ==
    /\ ev.op = "next"
    /\ ev.intent = "buy"
    /\ ahead < dataclose
    /\ pc = "feed"

(***************************************************************************)
(* DataCollector.validate_data.                                            *)
(***************************************************************************)

\* Bars a validated series may have.
MaxBars == 2

\* Timestamps of the series validated, in days.
Dates == {1, 9}

\* pd.Timedelta(days=7)
GapDays == 7

\* price_cols = ['open', 'high', 'low', 'close']
price_cols == <<"open", "high", "low", "close">>

\* The cells of the bars validated: a valid low price, a valid high price, a
\* price of zero, a missing value.
BarRows ==
    [date : Dates, open : {1, NaN}, high : {0, 1, 2}, low : {1, 2}, close : {1, 2}]

\* The sequences over S of at most n elements.
SeqUpTo(S, n) == UNION {[1..k -> S] : k \in 0..n}

\* Frames of one instrument, with or without a symbol column.
Frames(rows, n) ==
    [columns : {{"date", "open", "high", "low", "close"},
                {"date", "symbol", "open", "high", "low", "close"}},
     rows : SeqUpTo(rows, n)]

\* One entry of validation_results['issues'].
Issue(type, count, details, max_gap) ==
    [type |-> type, count |-> count, details |-> details, max_gap |-> max_gap]

\* data.isnull().sum(), per column of the frame
missing_values(df) ==
    {<<col, CountRows(df, LAMBDA r : isnull(r[col]))>> : col \in df.columns \ {"symbol"}}

\* missing_values[missing_values > 0].to_dict()
Positive(counts) == {c \in counts : c[2] > 0}

\* x.duplicated().sum(): the rows whose date an earlier row of the group has
duplicated(df) ==
    Cardinality({i \in 1..Len(df.rows) :
                    \E j \in 1..(i - 1) : df.rows[j].date = df.rows[i].date})

\* if 'date' in data.columns and 'symbol' in data.columns
check_duplicates(df) == "date" \in df.columns /\ "symbol" \in df.columns

\* (data[col] <= 0).sum()
invalid_prices(df, col) == CountRows(df, LAMBDA r : le(r[col], 0))

\* Mutant: the low is compared with the close only.
ohlc_violated_close_only(r) ==
    \/ lt(r.high, r.low)
    \/ lt(r.high, r.open)
    \/ lt(r.high, r.close)
    \/ lt(r.close, r.low)

\* (high < low) | (high < open) | (high < close) | (low > open) | (low > close)
ohlc_violated(r) ==
    \/ lt(r.high, r.low)
    \/ lt(r.high, r.open)
    \/ lt(r.high, r.close)
    \/ lt(r.open, r.low)
    \/ lt(r.close, r.low)

\* (...).sum()
invalid_ohlc(df) == CountRows(df, ohlc_violated)

\* data.sort_values('date')['date']
sorted_dates(df) ==
    SortSeq([i \in 1..Len(df.rows) |-> df.rows[i].date], LAMBDA a, b : a < b)

\* data_sorted['date'].diff(), without its first (missing) element
date_diffs(df) ==
    LET d == sorted_dates(df)
    IN  [i \in 1..(Len(d) - 1) |-> d[i + 1] - d[i]]

\* date_diffs[date_diffs > pd.Timedelta(days=7)]
large_gaps(df) == SelectSeq(date_diffs(df), LAMBDA g : g > GapDays)

\* large_gaps.max()
MaxOf(s) == Max({s[i] : i \in 1..Len(s)})

\* The issues the loop over price_cols appends, from column k on.
RECURSIVE price_issues(_, _)
price_issues(df, k) ==
    IF k > Len(price_cols) THEN <<>>
    ELSE (IF price_cols[k] \in df.columns /\ invalid_prices(df, price_cols[k]) > 0
          THEN <<Issue("invalid_" \o price_cols[k] \o "_prices",
                       invalid_prices(df, price_cols[k]), {}, 0)>>
          ELSE <<>>)
         \o price_issues(df, k + 1)

\* validate_data(data): the five checks, each appending to 'issues'.
validate_data(df) ==
    [total_rows |-> Len(df.rows),
     issues |->
        (IF \E c \in missing_values(df) : c[2] > 0
         THEN <<Issue("missing_values", 0, Positive(missing_values(df)), 0)>>
         ELSE <<>>)
        \o (IF check_duplicates(df) /\ duplicated(df) > 0
            THEN <<Issue("duplicate_dates", duplicated(df), {}, 0)>>
            ELSE <<>>)
        \o price_issues(df, 1)
        \o (IF {"open", "high", "low", "close"} \subseteq df.columns
               /\ invalid_ohlc(df) > 0
            THEN <<Issue("invalid_ohlc_relationships", invalid_ohlc(df), {}, 0)>>
            ELSE <<>>)
        \o (IF "date" \in df.columns /\ Len(large_gaps(df)) > 0
            THEN <<Issue("data_gaps", Len(large_gaps(df)), {},
                         MaxOf(large_gaps(df)))>>
            ELSE <<>>)]

\* The caller validates the frame it holds.
Validate ==
    /\ dpc = "loaded"
    /\ result' = validate_data(data)
    /\ dpc' = "validated"
    /\ UNCHANGED <<data, config, ahead, metadata, files>>
    /\ UNCHANGED <<sim_vars, sweep_vars, signals>>

\* The simulation is not running while the data is collected.
SimIdle ==
    /\ strat = "BB"
    /\ pc = "done"
    /\ len = 0
    /\ closes = <<>>
    /\ cash = 0
    /\ position = 0
    /\ trade = NoTrade
    /\ ntrades = 0
    /\ last_trade = NoTrade
    /\ orders = <<>>
    /\ notifs = <<>>
    /\ order = None
    /\ buy_price = None
    /\ buy_comm = None
    /\ trade_log = 0
    /\ ev = Ev("init")
    /\ ahead = None

ValidateInit ==
    /\ SimIdle
    /\ SweepIdle
    /\ dpc = "loaded"
    /\ data \in Frames(BarRows, MaxBars)
    /\ config = [gap_threshold_days |-> GapDays, method |-> ""]
    /\ result = NoFrame
    /\ metadata = NoMetadata
    /\ files = NoFiles

ValidateStep == Validate

SpecValidate == ValidateInit /\ [][ValidateStep]_vars

(***************************************************************************)
(* Defects of a series, as section 4.1 of the specification states them.   *)
(***************************************************************************)

Cells == {"open", "high", "low", "close"}

Bars(df) == 1..Len(df.rows)

HasMissing(df) == \E i \in Bars(df), col \in Cells : df.rows[i][col] = NaN

HasDuplicate(df) ==
    \E i, j \in Bars(df) : i # j /\ df.rows[i].date = df.rows[j].date

HasNonPositive(df) ==
    \E i \in Bars(df), col \in Cells :
       df.rows[i][col] # NaN /\ ~(df.rows[i][col] > 0)

\* low <= open, close <= high and low <= high, for the cells that are there.
WellFormed(r) ==
    \A pair \in {<<"low", "open">>, <<"low", "close">>, <<"open", "high">>,
                 <<"close", "high">>, <<"low", "high">>} :
       \/ r[pair[1]] = NaN
       \/ r[pair[2]] = NaN
       \/ r[pair[1]] <= r[pair[2]]

\* Two timestamps of the series with no timestamp of the series in between:
\* the deltas between consecutive timestamps after sorting.
ConsecutiveDeltas(df) ==
    {<<i, j>> \in Bars(df) \X Bars(df) :
        /\ df.rows[i].date < df.rows[j].date
        /\ \A k \in Bars(df) : ~( /\ df.rows[i].date < df.rows[k].date
                                  /\ df.rows[k].date < df.rows[j].date )
        /\ \A k \in Bars(df) : df.rows[k].date = df.rows[i].date => k >= i
        /\ \A k \in Bars(df) : df.rows[k].date = df.rows[j].date => k >= j}

Delta(df, d) == df.rows[d[2]].date - df.rows[d[1]].date

GapsOver(df, days) == {d \in ConsecutiveDeltas(df) : Delta(df, d) > days}

\* The entries of the report whose type is in types.
Entries(types) ==
    {k \in 1..Len(result.issues) : result.issues[k].type \in types}

PriceTypes ==
    {"invalid_open_prices", "invalid_high_prices", "invalid_low_prices",
     "invalid_close_prices"}

\* Each check of validate by itself: an entry of the type if and only if the
\* series has a defect of the type.
C12_MissingReported ==
    dpc = "validated" => (Entries({"missing_values"}) # {} <=> HasMissing(data))

C12_DuplicatesReported ==
    dpc = "validated" => (Entries({"duplicate_dates"}) # {} <=> HasDuplicate(data))

C12_PricesReported ==
    dpc = "validated" => (Entries(PriceTypes) # {} <=> HasNonPositive(data))

C12_OhlcReported ==
    dpc = "validated" =>
       (Entries({"invalid_ohlc_relationships"}) # {}
          <=> \E i \in Bars(data) : ~WellFormed(data.rows[i]))

C12_GapsReported ==
    dpc = "validated" =>
       (Entries({"data_gaps"}) # {} <=> GapsOver(data, GapDays) # {})

(***************************************************************************)
(* C12.  validate runs all five checks on every input: the report has an   *)
(* entry for missing values, duplicate timestamps, non-positive prices,    *)
(* OHLC-relationship violations, timestamp gaps if and only if the series  *)
(* has a defect of that type, whatever else it has, with or without a      *)
(* symbol column.                                                          *)
(***************************************************************************)
C12_EveryDefectReported ==
    /\ C12_MissingReported
    /\ C12_DuplicatesReported
    /\ C12_PricesReported
    /\ C12_OhlcReported
    /\ C12_GapsReported

(***************************************************************************)
(* C13.  The OHLC-relationship violation count of the report is the number *)
(* of bars for which high < low, high < open, high < close, low > open or  *)
(* low > close holds; a series whose bars all satisfy                      *)
(* low <= open, close <= high has no such entry.                           *)
(***************************************************************************)
OhlcCount ==
    IF Entries({"invalid_ohlc_relationships"}) = {} THEN 0
    ELSE result.issues[CHOOSE k \in Entries({"invalid_ohlc_relationships"}) : TRUE].count

C13_OhlcViolationCount ==
    dpc = "validated" =>
       /\ OhlcCount = Cardinality({i \in Bars(data) : ~WellFormed(data.rows[i])})
       /\ Cardinality(Entries({"invalid_ohlc_relationships"})) <= 1
       /\ (\A i \in Bars(data) : WellFormed(data.rows[i])) =>
             Entries({"invalid_ohlc_relationships"}) = {}

\* Of two bars, one has its low above its open and no other violation, the
\* other is well formed: the report counts one.
C13_Witness ==
    /\ dpc = "validated"
    /\ Len(data.rows) = 2
    /\ WellFormed(data.rows[1])
    /\ data.rows[2].low > data.rows[2].open
    /\ data.rows[2].open # NaN
    /\ data.rows[2].low <= data.rows[2].close
    /\ data.rows[2].high >= data.rows[2].low
    /\ OhlcCount = 1

(***************************************************************************)
(* validate_data on series with gaps, called by a caller whose run         *)
(* configuration names a gap threshold (gap_threshold_days).               *)
(***************************************************************************)

\* Bars a series checked for gaps may have.
GapBars == 3

\* Timestamps of the series checked for gaps, in days: deltas of 7, 8 and 4
\* days, and their sums.
GapDates == {1, 8, 16, 20}

\* gap_threshold_days the caller may have configured: the default, and less.
GapThresholds == {GapDays, GapDays - 4}

\* Well-formed bars, which differ in their timestamp only.
GapRows == [date : GapDates, open : {1}, high : {2}, low : {1}, close : {2}]

GapsInit ==
    /\ SimIdle
    /\ SweepIdle
    /\ dpc = "loaded"
    /\ data \in Frames(GapRows, GapBars)
    /\ config \in [gap_threshold_days : GapThresholds, method : {""}]
    /\ result = NoFrame
    /\ metadata = NoMetadata
    /\ files = NoFiles

GapsStep == Validate

SpecGaps == GapsInit /\ [][GapsStep]_vars

\* The data_gaps entry of the report, or an entry of no gaps.
GapEntry ==
    IF Entries({"data_gaps"}) = {} THEN Issue("data_gaps", 0, {}, 0)
    ELSE result.issues[CHOOSE k \in Entries({"data_gaps"}) : TRUE]

\* Count and maximum of the deltas over `days` between consecutive
\* timestamps of the series.
GapsAsClaimed(days) ==
    /\ GapEntry.count = Cardinality(GapsOver(data, days))
    /\ GapEntry.max_gap =
          (IF GapsOver(data, days) = {} THEN 0
           ELSE Max({Delta(data, d) : d \in GapsOver(data, days)}))

(***************************************************************************)
(* C14.  For a series of one instrument in any row order, validate reports *)
(* as gap count the number of deltas between consecutive timestamps (after *)
(* sorting) that exceed the gap threshold the caller configured (default 7 *)
(* days), and as maximum gap the largest of them; a delta equal to the     *)
(* threshold is not flagged.                                               *)
(***************************************************************************)
C14_GapsOverConfiguredThreshold ==
    dpc = "validated" => GapsAsClaimed(config.gap_threshold_days)

\* What validate does report: the gaps over 7 days, whatever the threshold
\* configured.
C14_GapsOverSevenDays ==
    dpc = "validated" => GapsAsClaimed(GapDays)

(***************************************************************************)
(* DataCollector.handle_missing_data.                                      *)
(***************************************************************************)

\* Bars a repaired series may have.
RepairBars == 3

\* The cells of the bars repaired: two prices, or a missing value.
RepairCells == {NaN, 60, 120}

\* The numeric columns of the frames repaired.
RepairCols == {"open", "close"}

\* The methods a caller may ask for: the three of the docstring, and one
\* that is unknown.
Methods == {"forward_fill", "drop", "interpolate", "zero"}

\* Frames of k bars, with timestamps 1..k in this order.
RepairFrames(n) ==
    {[columns |-> {"date"} \cup RepairCols,
      rows |-> [i \in DOMAIN f |-> [date |-> i, open |-> f[i][1], close |-> f[i][2]]]] :
        f \in UNION {[1..k -> RepairCells \X RepairCells] : k \in 0..n}}

\* What a call returns: the frame, or the exception it raised.
Returned(df) == [raised |-> "", frame |-> df]

Raised(exc) == [raised |-> exc, frame |-> NoFrame]

\* The rows before i (after i) whose cell of the column is not missing.
ValidBefore(df, i, col) == {j \in 1..(i - 1) : ~isnull(df.rows[j][col])}

ValidAfter(df, i, col) == {j \in (i + 1)..Len(df.rows) : ~isnull(df.rows[j][col])}

Min(S) == CHOOSE x \in S : \A y \in S : x <= y

\* The frame with each cell of the columns cols replaced by cell(i, col).
WithCells(df, cols, cell(_, _)) ==
    [df EXCEPT !.rows =
        [i \in 1..Len(df.rows) |->
           [col \in DOMAIN df.rows[i] |->
              IF col \in cols THEN cell(i, col) ELSE df.rows[i][col]]]]

\* df.dropna(): the rows without a missing cell
dropna(df) ==
    [df EXCEPT !.rows = SelectSeq(df.rows, LAMBDA r : \A col \in DOMAIN r : ~isnull(r[col]))]

\* Mutant: the rows that could not be filled are dropped.
fillna_ffill_dropna(df) ==
    dropna(WithCells(df, RepairCols,
              LAMBDA i, col :
                 IF ~isnull(df.rows[i][col]) \/ ValidBefore(df, i, col) = {}
                 THEN df.rows[i][col]
                 ELSE df.rows[Max(ValidBefore(df, i, col))][col]))

\* df.fillna(method='ffill'): each missing cell takes the last value of its
\* column before it, if there is one.
fillna_ffill(df) ==
    WithCells(df, RepairCols,
       LAMBDA i, col :
          IF ~isnull(df.rows[i][col]) \/ ValidBefore(df, i, col) = {}
          THEN df.rows[i][col]
          ELSE df.rows[Max(ValidBefore(df, i, col))][col])

\* df.interpolate(method='linear'): a missing cell between two values of its
\* column lies on the line between them (rows equally spaced); one after the
\* last value takes the last value; one before the first value stays missing.
interpolate_linear(df) ==
    WithCells(df, RepairCols,
       LAMBDA i, col :
          IF ~isnull(df.rows[i][col]) \/ ValidBefore(df, i, col) = {}
          THEN df.rows[i][col]
          ELSE LET a == Max(ValidBefore(df, i, col))
               IN  IF ValidAfter(df, i, col) = {} THEN df.rows[a][col]
                   ELSE LET b == Min(ValidAfter(df, i, col))
                        IN  df.rows[a][col]
                            + ((df.rows[b][col] - df.rows[a][col]) * (i - a)) \div (b - a))

\* handle_missing_data(data, method)
handle_missing_data(df, method) ==
    IF method = "forward_fill" THEN Returned(fillna_ffill(df))
    ELSE IF method = "drop" THEN Returned(dropna(df))
    ELSE IF method = "interpolate" THEN Returned(interpolate_linear(df))
    ELSE Raised("ValueError")

\* The caller repairs the frame it holds.
Repair ==
    /\ dpc = "loaded"
    /\ result' = handle_missing_data(data, config.method)
    /\ dpc' = "repaired"
    /\ UNCHANGED <<data, config, ahead, metadata, files>>
    /\ UNCHANGED <<sim_vars, sweep_vars, signals>>

RepairInit ==
    /\ SimIdle
    /\ SweepIdle
    /\ dpc = "loaded"
    /\ data \in RepairFrames(RepairBars)
    /\ config \in [gap_threshold_days : {GapDays}, method : Methods]
    /\ result = NoFrame
    /\ metadata = NoMetadata
    /\ files = NoFiles

RepairStep == Repair

SpecRepair == RepairInit /\ [][RepairStep]_vars

(***************************************************************************)
(* Repairs, as section 4.1 of the specification states them.               *)
(***************************************************************************)

\* The bars of the series that have no missing field.
Complete(df) ==
    {i \in Bars(df) : \A col \in RepairCols : df.rows[i][col] # NaN}

\* A run of missing values of the column touches the first or the last bar.
BoundaryGap(df, col) ==
    /\ Len(df.rows) > 0
    /\ \/ df.rows[1][col] = NaN
       \/ df.rows[Len(df.rows)][col] = NaN

Repaired(method) == dpc = "repaired" /\ config.method = method

(***************************************************************************)
(* C15.  Forward-fill repair returns a series of the same length, with the *)
(* same timestamps in the same order, wherever the missing fields are;     *)
(* drop repair returns the subsequence of the bars of the input that have  *)
(* no missing field, which is never longer than the input.                 *)
(***************************************************************************)
C15_RepairLengths ==
    /\ Repaired("forward_fill") =>
          /\ result.raised = ""
          /\ Len(result.frame.rows) = Len(data.rows)
          /\ \A i \in Bars(data) : result.frame.rows[i].date = data.rows[i].date
    /\ Repaired("drop") =>
          /\ result.raised = ""
          /\ Len(result.frame.rows) <= Len(data.rows)
          /\ Len(result.frame.rows) = Cardinality(Complete(data))
          /\ \A k \in Bars(result.frame) :
                \E i \in Complete(data) :
                   /\ result.frame.rows[k] = data.rows[i]
                   /\ Cardinality({j \in Complete(data) : j < i}) = k - 1

\* A series whose first bar has a field that nothing can be carried into was
\* forward-filled: the bar is still there, the field still missing.
C15_Witness ==
    /\ Repaired("forward_fill")
    /\ Len(data.rows) = 3
    /\ data.rows[1].close = NaN
    /\ data.rows[3].open = NaN
    /\ result.frame.rows[1].close = NaN
    /\ result.frame.rows[3].open # NaN

(***************************************************************************)
(* C16.  Linear-interpolate repair fails with InsufficientData whenever a  *)
(* run of missing values of some column touches the first or the last bar  *)
(* of the series; it never returns a series in which that gap is left      *)
(* missing or filled from one side.                                        *)
(***************************************************************************)
C16_BoundaryGapFails ==
    (Repaired("interpolate") /\ \E col \in RepairCols : BoundaryGap(data, col))
       => result.raised = "InsufficientData"

(***************************************************************************)
(* A session with one DataCollector: fetch_data, handle_missing_data,      *)
(* save_data and load_data, in any order.                                  *)
(***************************************************************************)

\* The symbols a caller may ask for, numbered.
Tickers == {1, 2}

\* Symbols a request may list.
MaxRequest == 2

\* Date ranges (start_date, end_date) a caller may ask for, numbered.
DateRanges == {1, 2}

\* What the provider does for one symbol: it raises, or returns the closes of
\* its rows (none, one, or two of which the second is missing).
Outcomes ==
    [raises : {TRUE}, closes : {<<>>}]
       \cup [raises : {FALSE}, closes : {<<>>, <<60>>, <<60, NaN>>}]

\* The requests: lists of one to n symbols.
Requests(n) == UNION {[1..k -> Tickers] : k \in 1..n}

\* self.metadata after __init__
InitMetadata == [NoMetadata EXCEPT !.source = "yahoo"]

\* The rows of symbol s in the provider's answer `out`, after
\* df['Symbol'] = symbol and df.reset_index().
SymbolRows(s, out) ==
    [i \in 1..Len(out.closes) |-> [symbol |-> s, date |-> i, close |-> out.closes[i]]]

\* Mutant: a symbol without rows is not skipped.
skipped_if_raised(out) == out.raises

\* The symbol is skipped: the provider raised (except Exception: continue) or
\* returned no row (if df.empty: continue).
skipped(out) == out.raises \/ out.closes = <<>>

\* data_frames after the loop over symbols[k..]
RECURSIVE data_frames(_, _, _)
data_frames(symbols, provider, k) ==
    IF k > Len(symbols) THEN <<>>
    ELSE (IF skipped(provider[symbols[k]]) THEN <<>>
          ELSE <<SymbolRows(symbols[k], provider[symbols[k]])>>)
         \o data_frames(symbols, provider, k + 1)

\* pd.concat(data_frames, ignore_index=True)
RECURSIVE concat(_)
concat(frames) ==
    IF frames = <<>> THEN <<>> ELSE Head(frames) \o concat(Tail(frames))

\* _fetch_yahoo(symbols, start_date, end_date, interval): what it returns
fetch_yahoo(symbols, provider) ==
    IF data_frames(symbols, provider, 1) = <<>> THEN Raised("ValueError")
    ELSE Returned([columns |-> {"date", "symbol", "close"},
                   rows |-> concat(data_frames(symbols, provider, 1))])

\* self.metadata after _fetch_yahoo
metadata_fetched(symbols, range, interval, provider) ==
    IF fetch_yahoo(symbols, provider).raised # "" THEN metadata
    ELSE [metadata EXCEPT !.fetched = TRUE,
                          !.symbols = symbols,
                          !.date_range = range,
                          !.interval = interval,
                          !.rows_collected =
                              Len(fetch_yahoo(symbols, provider).frame.rows)]

\* Calls a session makes.
MaxCalls == 3

\* The arguments of the call just made, the n-th of the session.
Call(op, symbols, provider, method) ==
    [op |-> op, n |-> IF op = "init" THEN 0 ELSE config.n + 1,
     symbols |-> symbols, provider |-> provider, method |-> method]

NoProvider == [s \in Tickers |-> [raises |-> TRUE, closes |-> <<>>]]

\* data = collector.fetch_data(symbols, start_date, end_date, '1d')
Fetch(symbols, range, provider) ==
    /\ dpc = "session"
    /\ result' = fetch_yahoo(symbols, provider)
    /\ metadata' = metadata_fetched(symbols, range, "1d", provider)
    /\ data' = IF fetch_yahoo(symbols, provider).raised # "" THEN data
               ELSE fetch_yahoo(symbols, provider).frame
    /\ config' = Call("fetch", symbols, provider, "")
    /\ UNCHANGED <<dpc, files, ahead>>
    /\ UNCHANGED <<sim_vars, sweep_vars, signals>>

\* data = collector.handle_missing_data(data, method)
RepairHeld(method) ==
    /\ dpc = "session"
    /\ data # NoFrame
    /\ result' = handle_missing_data(data, method)
    /\ data' = handle_missing_data(data, method).frame
    /\ config' = Call("repair", <<>>, NoProvider, method)
    /\ UNCHANGED <<dpc, metadata, files, ahead>>
    /\ UNCHANGED <<sim_vars, sweep_vars, signals>>

\* json.dump(self.metadata, f)
sidecar(df) == metadata

\* collector.save_data(data, filename, include_metadata=...)
Save(include_metadata) ==
    /\ dpc = "session"
    /\ data # NoFrame
    /\ files' = [saved |-> TRUE, rows |-> data.rows,
                 sidecar |-> IF include_metadata THEN TRUE ELSE files.sidecar,
                 metadata |-> IF include_metadata THEN sidecar(data)
                              ELSE files.metadata]
    /\ result' = Returned(NoFrame)
    /\ config' = Call(IF include_metadata THEN "save" ELSE "save data", <<>>,
                      NoProvider, "")
    /\ UNCHANGED <<dpc, data, metadata, ahead>>
    /\ UNCHANGED <<sim_vars, sweep_vars, signals>>

\* data = collector.load_data(filename)
Load ==
    /\ dpc = "session"
    /\ files.saved
    /\ data' = [columns |-> {"date", "symbol", "close"}, rows |-> files.rows]
    /\ result' = Returned(data')
    /\ config' = Call("load", <<>>, NoProvider, "")
    /\ UNCHANGED <<dpc, metadata, files, ahead>>
    /\ UNCHANGED <<sim_vars, sweep_vars, signals>>

CollectInit ==
    /\ SimIdle
    /\ SweepIdle
    /\ dpc = "session"
    /\ data = NoFrame
    /\ config = Call("init", <<>>, NoProvider, "")
    /\ result = Returned(NoFrame)
    /\ metadata = InitMetadata
    /\ files = NoFiles

\* The session goes on.
MoreCalls == config.n < MaxCalls

CollectStep ==
    \/ \E symbols \in Requests(MaxRequest), range \in DateRanges,
          provider \in [Tickers -> Outcomes] :
             MoreCalls /\ Fetch(symbols, range, provider)
    \/ \E method \in {"forward_fill", "drop"} : MoreCalls /\ RepairHeld(method)
    \/ \E include_metadata \in BOOLEAN : MoreCalls /\ Save(include_metadata)
    \/ MoreCalls /\ Load

SpecCollect == CollectInit /\ [][CollectStep]_vars

\* One batch fetch by a new collector.
FetchStep ==
    \E symbols \in Requests(MaxRequest), range \in DateRanges,
       provider \in [Tickers -> Outcomes] :
          config.op = "init" /\ Fetch(symbols, range, provider)

SpecFetch == CollectInit /\ [][FetchStep]_vars

(***************************************************************************)
(* Batch fetches and sidecars, as the specification states them.           *)
(***************************************************************************)

\* The symbols of the request whose fetch neither raised nor came back
\* without rows, in request order.
Succeeded ==
    SelectSeq(config.symbols,
              LAMBDA s : ~config.provider[s].raises /\ config.provider[s].closes # <<>>)

\* The rows the provider returned for the symbols of the list, in its order.
RECURSIVE RowsOf(_)
RowsOf(symbols) ==
    IF symbols = <<>> THEN <<>>
    ELSE [i \in 1..Len(config.provider[Head(symbols)].closes) |->
            [symbol |-> Head(symbols), date |-> i,
             close |-> config.provider[Head(symbols)].closes[i]]]
         \o RowsOf(Tail(symbols))

(***************************************************************************)
(* C17.  In a batch fetch every symbol whose fetch raises or returns no    *)
(* rows is skipped and the others are still fetched: the batch returns the *)
(* rows of exactly the successful symbols, in request order, and fails     *)
(* with an error if and only if no symbol succeeds.                        *)
(***************************************************************************)
C17_BatchFetchSkipsFailures ==
    config.op = "fetch" =>
       /\ result.raised # "" <=> Succeeded = <<>>
       /\ result.raised = "" =>
             /\ result.frame.rows = RowsOf(Succeeded)
             /\ data = result.frame
             /\ \A s \in Tickers :
                   (\E i \in 1..Len(result.frame.rows) : result.frame.rows[i].symbol = s)
                      <=> (\E k \in 1..Len(Succeeded) : Succeeded[k] = s)

\* The provider raised for the first symbol of the request <<2, 1>>; the batch
\* went on and returned the two rows of the second.
C17_Witness ==
    /\ config.op = "fetch"
    /\ config.symbols = <<2, 1>>
    /\ config.provider[2].raises
    /\ result.raised = ""
    /\ Len(result.frame.rows) = 2
    /\ result.frame.rows[1].symbol = 1

(***************************************************************************)
(* C20.  Whenever a dataset is saved with metadata enabled, the sidecar    *)
(* saved with it records the row count of exactly that dataset, with the   *)
(* source and the parameter set that produced it, for any sequence of      *)
(* fetch, repair, load and save on the collector.                          *)
(***************************************************************************)
C20_SidecarDescribesDataset ==
    (config.op = "save" /\ files.sidecar) =>
       /\ files.metadata.source = "yahoo"
       /\ files.metadata.fetched
       /\ files.metadata.rows_collected = Len(files.rows)

(***************************************************************************)
(* The parameter sweep: run_backtest(config, optimize=True).               *)
(***************************************************************************)

\* The most candidate values swept for one parameter.
MaxCandidates == 2

\* The most runs of one sweep.
MaxRuns == 8

\* The most runs of a sweep whose analyses are drawn freely.
RankRuns == 4

\* The candidate values of DEFAULT_CONFIG in the order they are declared
\* (bb_dev in tenths, stop_loss_pct in whole percent).
Candidates ==
    [bb_period |-> <<15, 20, 25, 30>>,
     bb_dev |-> <<15, 20, 25>>,
     stop_loss_pct |-> <<2, 3, 5>>]

\* The sweeps of at most runs runs over the first candidates of each list.
Sweeps(runs) ==
    {[bb_period |-> SubSeq(Candidates.bb_period, 1, t[1]),
      bb_dev |-> SubSeq(Candidates.bb_dev, 1, t[2]),
      stop_loss_pct |-> SubSeq(Candidates.stop_loss_pct, 1, t[3])] :
       t \in {u \in (1..MaxCandidates) \X (1..MaxCandidates) \X (1..MaxCandidates) :
                u[1] * u[2] * u[3] <= runs}}

\* The combinations cerebro.run() iterates: itertools.product of the candidate
\* lists in keyword order, the last list varying fastest.
product(op) ==
    LET M == Len(op.bb_dev)
        K == Len(op.stop_loss_pct)
    IN  [i \in 1..(Len(op.bb_period) * M * K) |->
           [bb_period |-> op.bb_period[((i - 1) \div (M * K)) + 1],
            bb_dev |-> op.bb_dev[(((i - 1) \div K) % M) + 1],
            stop_loss_pct |-> op.stop_loss_pct[((i - 1) % K) + 1]]]

\* cerebro.broker.setcash(config['initial_cash']), in thousandths.
startingcash == 1000 * Max(InitialCashes)

\* Mutant: a new strategy instance inherits the entry price of the last run.
init_buy_price_kept == buy_price

\* BollingerBandBreakout.__init__: self.buy_price = None.
init_buy_price == None

\* The combination of the run in progress (or of the next run).
params == product(optimization_params)[Len(results) + 1]

\* The strategy and the ledger are constructed for the next combination:
\* __init__ clears the order and the entry bookkeeping, the broker starts
\* from the configured cash with no position.
Instantiate ==
    /\ pc = "start"
    /\ Len(results) < Len(product(optimization_params))
    /\ order' = None
    /\ buy_price' = init_buy_price
    /\ buy_comm' = None
    /\ cash' = startingcash
    /\ position' = 0
    /\ pc' = "feed"
    /\ ev' = Ev("init")
    /\ UNCHANGED <<strat, len, closes, trade, ntrades, last_trade, orders, notifs,
                   trade_log>>
    /\ UNCHANGED <<ahead, data_vars, sweep_vars, signals>>

\* next() of the run in progress emits an order: self.order is set.
RunSubmit ==
    /\ pc = "feed"
    /\ order = None
    /\ order' = Len(orders) + 1
    /\ ev' = Ev("next")
    /\ UNCHANGED <<strat, pc, len, closes, cash, position, trade, ntrades,
                   last_trade, orders, notifs, buy_price, buy_comm, trade_log>>
    /\ UNCHANGED <<ahead, data_vars, sweep_vars, signals>>

\* The entry order of the run in progress is filled at price c: the ledger
\* pays value and commission, notify_order records the entry price and
\* commission and clears self.order.
RunBuy(c) ==
    /\ pc = "feed"
    /\ order # None
    /\ position = 0
    /\ CanAfford(c, 1)
    /\ cash' = cash - Value(c, 1) - Commission(c, 1)
    /\ position' = 1
    /\ buy_price' = c
    /\ buy_comm' = Commission(c, 1)
    /\ order' = None
    /\ ev' = Ev("notify_order")
    /\ UNCHANGED <<strat, pc, len, closes, trade, ntrades, last_trade, orders,
                   notifs, trade_log>>
    /\ UNCHANGED <<ahead, data_vars, sweep_vars, signals>>

\* Portfolio value at the end of a run, the position valued at its entry price.
value == cash + (IF position = 0 THEN 0 ELSE Value(buy_price, position))

\* What the analyzers of the finished run report: the Returns analyzer's total
\* return (here the gain in thousandths, which grows with rtot) and the
\* DrawDown analyzer's maximum drawdown.
analysis == [rtot |-> value - startingcash, max_dd |-> Max({0, startingcash - value})]

\* The entry cerebro.run() returns for a run: parameters and analyzers.
StratResult(p, a) == [params |-> p, rtot |-> a.rtot, max_dd |-> a.max_dd]

\* The run in progress ends; its strategy joins the results of the sweep.
RunStop ==
    /\ pc = "feed"
    /\ results' = Append(results, StratResult(params, analysis))
    /\ pc' = IF Len(results) + 1 = Len(product(optimization_params))
             THEN "swept" ELSE "start"
    /\ ev' = Ev("stop")
    /\ UNCHANGED <<strat, len, closes, cash, position, trade, ntrades, last_trade,
                   orders, notifs, order, buy_price, buy_comm, trade_log>>
    /\ UNCHANGED <<ahead, data_vars, optimization_params, opt_results, signals>>

\* opt_results.append({...}) for each result, in the order of results.
collected(rs) ==
    [i \in 1..Len(rs) |->
       [params |-> rs[i].params, return_pct |-> rs[i].rtot * 100,
        max_dd |-> rs[i].max_dd]]

\* opt_results.sort(key=lambda x: x['return_pct'], reverse=True): descending
\* by return, records of equal return keeping the order they had.
RECURSIVE sort_by_return(_)
sort_by_return(rs) ==
    IF rs = <<>> THEN <<>>
    ELSE LET before == sort_by_return(SubSeq(rs, 1, Len(rs) - 1))
             last == rs[Len(rs)]
             k == Cardinality({i \in DOMAIN before :
                                 before[i].return_pct >= last.return_pct})
         IN  SubSeq(before, 1, k) \o <<last>> \o SubSeq(before, k + 1, Len(before))

\* The results of the sweep are collected into records and ranked.
PrintOptimizationResults ==
    /\ pc = "swept"
    /\ opt_results' = sort_by_return(collected(results))
    /\ pc' = "ranked"
    /\ ev' = Ev("print_optimization_results")
    /\ UNCHANGED <<strat, len, closes, cash, position, trade, ntrades, last_trade,
                   orders, notifs, order, buy_price, buy_comm, trade_log>>
    /\ UNCHANGED <<ahead, data_vars, optimization_params, results, signals>>

\* The length of the printed list: opt_results[:10].
TopK == 10

\* The list printed under TOP 10 PARAMETER COMBINATIONS.
top == SubSeq(opt_results, 1, Min({TopK, Len(opt_results)}))

\* The combination printed under RECOMMENDED PARAMETERS.
best == opt_results[1]

\* No run has started.
SweepStart ==
    /\ strat = "BB"
    /\ len = 0
    /\ closes = <<>>
    /\ cash = 0
    /\ position = 0
    /\ trade = NoTrade
    /\ ntrades = 0
    /\ last_trade = NoTrade
    /\ orders = <<>>
    /\ notifs = <<>>
    /\ order = None
    /\ buy_price = None
    /\ buy_comm = None
    /\ trade_log = 0
    /\ ev = Ev("init")
    /\ ahead = None
    /\ DataIdle
    /\ opt_results = <<>>
    /\ signals = <<>>

SweepInit ==
    /\ SweepStart
    /\ pc = "start"
    /\ optimization_params \in Sweeps(MaxRuns)
    /\ results = <<>>

SweepStep ==
    \/ Instantiate
    \/ RunSubmit
    \/ \E c \in FeedPrices : RunBuy(c)
    \/ RunStop
    \/ PrintOptimizationResults

\* A sweep whose runs are carried out one after the other.
SpecSweep == SweepInit /\ [][SweepStep]_vars

\* What the analyzers can report for a run.
Analyses == [rtot : {0, 50}, max_dd : {10, 20}]

\* The results of a finished sweep over the combinations ps, any analysis each.
Analysed(ps) ==
    {[i \in DOMAIN ps |-> StratResult(ps[i], a[i])] : a \in [DOMAIN ps -> Analyses]}

RankInit ==
    /\ SweepStart
    /\ pc = "swept"
    /\ optimization_params \in Sweeps(RankRuns)
    /\ results \in Analysed(product(optimization_params))

RankStep == PrintOptimizationResults

\* The ranking of a finished sweep, for every analysis of its runs.
SpecRank == RankInit /\ [][RankStep]_vars

(***************************************************************************)
(* Properties of the parameter sweep.                                      *)
(***************************************************************************)

\* The state a run is constructed in, whatever the runs before it did.
FreshRun ==
    /\ order = None
    /\ buy_price = None
    /\ buy_comm = None
    /\ cash = startingcash
    /\ position = 0

\* The parameter tuples of the Cartesian product of the candidate sets.
Tuples ==
    {[bb_period |-> optimization_params.bb_period[n],
      bb_dev |-> optimization_params.bb_dev[m],
      stop_loss_pct |-> optimization_params.stop_loss_pct[k]] :
       n \in DOMAIN optimization_params.bb_period,
       m \in DOMAIN optimization_params.bb_dev,
       k \in DOMAIN optimization_params.stop_loss_pct}

\* What a run that is the only one of its sweep can report: it holds its cash,
\* or it has paid the commission of one entry at a price of the feed.
AloneOutcomes ==
    {[return_pct |-> 0, max_dd |-> 0]} \cup
    {[return_pct |-> -(Commission(c, 1) * 100), max_dd |-> Commission(c, 1)] :
       c \in FeedPrices}

Enumerated(p) ==
    CHOOSE i \in DOMAIN product(optimization_params) :
        product(optimization_params)[i] = p

\* a ranks before b: higher return; at equal return, lower max drawdown; at
\* equal return and drawdown, the combination enumerated earlier.
RanksBefore(a, b) ==
    \/ a.return_pct > b.return_pct
    \/ /\ a.return_pct = b.return_pct
       /\ a.max_dd < b.max_dd
    \/ /\ a.return_pct = b.return_pct
       /\ a.max_dd = b.max_dd
       /\ Enumerated(a.params) < Enumerated(b.params)

\* The records in the order of RanksBefore.
RECURSIVE Ranking(_)
Ranking(S) ==
    IF S = {} THEN <<>>
    ELSE LET first == CHOOSE a \in S : \A b \in S \ {a} : RanksBefore(a, b)
         IN  <<first>> \o Ranking(S \ {first})

\* The ranking of the records of the finished sweep.
Ranked == Ranking({collected(results)[i] : i \in DOMAIN results})

\* C19: the ranking lists the records by total return descending, records of
\* equal return by lower max drawdown first, records equal in both by the
\* enumeration order of their combinations; the best combination reported is
\* the first record of that ranking and the top list its first records.
C19_RankedByReturnThenDrawdown ==
    pc = "ranked" =>
       /\ opt_results = Ranked
       /\ best = Ranked[1]
       /\ top = SubSeq(Ranked, 1, Min({TopK, Len(Ranked)}))

\* The ranking the sort gives: by return descending, records of equal return
\* in the enumeration order of their combinations, whatever their drawdown.
C19_RankedByReturnThenEnumeration ==
    pc = "ranked" =>
       /\ Len(opt_results) = Len(results)
       /\ \A i, j \in DOMAIN opt_results :
            i < j =>
              \/ opt_results[i].return_pct > opt_results[j].return_pct
              \/ /\ opt_results[i].return_pct = opt_results[j].return_pct
                 /\ Enumerated(opt_results[i].params)
                      < Enumerated(opt_results[j].params)
       /\ best = opt_results[1]
       /\ top = opt_results

(***************************************************************************)
(* The crossover indicator over a whole series of closes.                  *)
(***************************************************************************)

\* The closes of the scenario of section 8.
Scenario == <<1, 2, 3, 10, 1>>

\* The closes a series is drawn from.
CrossPrices == {1, 2, 3, 10}

\* The closes of the bars the feed was loaded with.
Series == [i \in DOMAIN data.rows |-> data.rows[i].close]

\* The feed delivers its next bar and the indicators take their value for it.
Deliver ==
    /\ pc = "feed"
    /\ len < Len(data.rows)
    /\ len' = len + 1
    /\ closes' = Pushed(data.rows[len + 1].close)
    /\ signals' = Append(signals, crossover')
    /\ ev' = Ev("advance")
    /\ UNCHANGED <<strat, pc, cash, position, trade, ntrades, last_trade, orders,
                   notifs, order, buy_price, buy_comm, trade_log>>
    /\ UNCHANGED <<ahead, data_vars, sweep_vars>>

\* A MovingAverageCrossStrategy on a feed of as many bars as the scenario has.
CrossInit ==
    /\ strat = "MA"
    /\ pc = "feed"
    /\ len = 0
    /\ closes = <<>>
    /\ cash = 0
    /\ position = 0
    /\ trade = NoTrade
    /\ ntrades = 0
    /\ last_trade = NoTrade
    /\ orders = <<>>
    /\ notifs = <<>>
    /\ order = None
    /\ buy_price = None
    /\ buy_comm = None
    /\ trade_log = 0
    /\ ev = Ev("init")
    /\ ahead = None
    /\ dpc = "idle"
    /\ data \in {[columns |-> {"close"},
                  rows |-> [i \in DOMAIN Scenario |-> [close |-> s[i]]]] :
                   s \in [DOMAIN Scenario -> CrossPrices]}
    /\ config = NoConfig
    /\ result = NoFrame
    /\ metadata = NoMetadata
    /\ files = NoFiles
    /\ optimization_params = NoSweep
    /\ results = <<>>
    /\ opt_results = <<>>
    /\ signals = <<>>

CrossStep == Deliver

\* The crossover indicator, bar by bar, over every series of closes.
SpecCross == CrossInit /\ [][CrossStep]_vars

\* Sign of fast - slow on bar i of the series (both averages ready).
SeriesDiff(i) ==
    slow_period * Sum(SubSeq(Series, i - fast_period + 1, i))
      - fast_period * Sum(SubSeq(Series, i - slow_period + 1, i))

\* The bars on which both averages have a value.
BothReady == {i \in DOMAIN Series : i >= fast_period /\ i >= slow_period}

\* The bars on which the signal took the value v.
BarsWith(v) == {i \in DOMAIN signals : signals[i] = v}

\* The first bar on which the fast average exceeds the slow one, and the first
\* bar after it on which it is below (0 if there is none).
FirstAbove ==
    IF \E i \in BothReady : SeriesDiff(i) > 0
    THEN Min({i \in BothReady : SeriesDiff(i) > 0}) ELSE 0

FirstBelowAgain ==
    IF \E i \in BothReady : i > FirstAbove /\ SeriesDiff(i) < 0
    THEN Min({i \in BothReady : i > FirstAbove /\ SeriesDiff(i) < 0}) ELSE 0

\* The scenario was fed to the end.
ScenarioDone == Series = Scenario /\ len = Len(Scenario)

\* C21 as stated: over the closes [1,2,3,10,1] the crossover signal is +1 on
\* exactly one bar and -1 on exactly one bar, the bars where the fast average
\* first exceeds and then falls below the slow average.
C21_OneUpOneDown ==
    ScenarioDone =>
       /\ BarsWith(1) = {FirstAbove}
       /\ BarsWith(-1) = {FirstBelowAgain}
       /\ FirstAbove # 0
       /\ FirstBelowAgain # 0

\* C21 (amended): over the closes [1,2,3,10,1] the fast average is above the
\* slow average on every bar on which both have a value, so the crossover
\* signal is 0 on every bar: no bar has +1 and no bar has -1.
C21_ScenarioNeverCrosses ==
    Series = Scenario =>
       /\ \A i \in BothReady : SeriesDiff(i) > 0
       /\ \A i \in DOMAIN signals : signals[i] = 0

\* The five bars of the scenario were delivered and the signal has a value
\* for each of them.
C21_Witness ==
    /\ ScenarioDone
    /\ Len(signals) = Len(Scenario)
    /\ CrossReady

(***************************************************************************)
(* A broker that may fill an order in parts (a volume filler is set).      *)
(***************************************************************************)

\* The broker executes one unit of the pending order i at price p and keeps
\* the rest of it pending: the ledger moves by that unit and the strategy is
\* notified with status Partial.
BrokerPartial(i, p) ==
    LET o == orders[i]
        comm == Commission(p, 1)
    IN  /\ pc = "broker"
        /\ i \in Pending
        /\ o.size > 1
        /\ IF o.isbuy THEN CanAfford(p, 1) ELSE CanDeliver(o.size)
        /\ cash' = IF o.isbuy THEN cash - Value(p, 1) - comm
                   ELSE cash + Value(p, 1) - comm
        /\ position' = IF o.isbuy THEN position + 1 ELSE position - 1
        /\ trade' = IF o.isbuy THEN BoughtTrade(p, 1, comm)
                    ELSE [trade EXCEPT !.size = position - 1,
                                       !.comm = trade.comm + comm]
        /\ orders' = [orders EXCEPT ![i].status = "Partial", ![i].size = o.size - 1]
        /\ notifs' = notifs \o Preamble(i) \o <<OrderNote(i, "Partial", p, comm)>>
                       \o (IF o.isbuy /\ position = 0
                           THEN <<TradeNote(FALSE, 0, 0)>> ELSE <<>>)
        /\ ev' = [Ev("partial") EXCEPT !.ref = i, !.price = p, !.before = cash,
                                       !.held = position, !.size = 1,
                                       !.intent = IF o.isbuy THEN "buy" ELSE "sell",
                                       !.status = "Partial"]
        /\ pc' = "strategy"
        /\ UNCHANGED <<strat, len, closes, ntrades, last_trade, order, buy_price,
                       buy_comm, trade_log>>
        /\ UNCHANGED ext_vars

PartialStep ==
    \/ \E c \in FeedPrices : Advance(c) /\ UNCHANGED ext_vars
    \/ \E i \in 1..Len(orders), p \in FeedPrices : BrokerExecute(i, p)
    \/ \E i \in 1..Len(orders), p \in FeedPrices : BrokerPartial(i, p)
    \/ \E i \in 1..Len(orders) : BrokerCancel(i)
    \/ \E i \in 1..Len(orders) : BrokerAccept(i)
    \/ BrokerIdle
    \/ NotifyOrder
    \/ NotifyTrade
    \/ Next
    \/ Prenext
    \/ Stop

\* A run of either strategy against a broker that may fill in parts.
SpecPartial == Init /\ [][PartialStep]_vars

\* C22: self.order is cleared only by a notification that the order reached
\* Completed, Canceled, Margin or Rejected; any other notification
\* (Submitted, Accepted, a partial fill) leaves it as it was, so next() emits
\* nothing while an order is not fully resolved.
C22_OrderClearedOnlyWhenTerminal ==
    [][/\ (order # None /\ order' = None) =>
             (ev'.op = "notify_order" /\ ev'.status \in TerminalStatus)
       /\ (ev'.op = "notify_order" /\ ev'.status \notin TerminalStatus) =>
             order' = order
       /\ (ev'.op = "next" /\ ev'.intent # "none") => Pending = {}]_vars

\* What notify_order does: self.order is cleared by every notification
\* other than Submitted and Accepted, and by nothing else.
C22_OrderClearedUnlessSubmittedOrAccepted ==
    [][/\ (order # None /\ order' = None) =>
             (ev'.op = "notify_order" /\ ev'.status \notin {"Submitted", "Accepted"})
       /\ (ev'.op = "notify_order" /\ ev'.status \in {"Submitted", "Accepted"}) =>
             order' = order
       /\ (ev'.op = "notify_order" /\ ev'.status \notin {"Submitted", "Accepted"}) =>
             order' = None]_vars

(***************************************************************************)
(* The entry price the stop loss is measured from.                         *)
(***************************************************************************)

\* next() is about to run with a position open and no order pending: it
\* reaches the stop-loss condition.
StopLossEvaluated ==
    /\ pc = "strategy"
    /\ notifs = <<>>
    /\ len >= minperiod(strat)
    /\ position # 0
    /\ order = None

\* The buy fill that opened the position held: the last completed buy, with
\* no filled sell after it.
OpenedByLastBuy ==
    /\ CompletedBuys # {}
    /\ \A s \in FilledSells : s < Max(CompletedBuys)

====
